---- MODULE Spec2Model ----
(***************************************************************************)
(* Model of the multi-user task API of browser_use/api:                    *)
(*   - monitoring.py : TaskMonitor (task_metrics registry, stall check,    *)
(*                     cleanup, monitoring loop)                           *)
(*   - server.py     : execute_task / run_agent_task / cancel_task over    *)
(*                     active_tasks, user_sessions and task_agents         *)
(* The two modules share no state in the source: server.py never calls     *)
(* the monitor, so the model keeps the two registries apart as well.       *)
(***************************************************************************)
EXTENDS Integers, FiniteSets, Sequences, TLC

VARIABLES
    now,               \* wall clock in seconds (datetime.now / time.time)
    task_metrics,      \* monitoring.py:65  TaskMonitor.task_metrics
    metrics_order,     \* the keys of task_metrics in the order the dict holds them
    monitoring_active, \* monitoring.py:66  TaskMonitor.monitoring_active
    loops,             \* the asyncio tasks created for _monitoring_loop
    active_tasks,      \* server.py:102
    user_sessions,     \* server.py:103
    task_agents,       \* server.py:104
    executors,         \* position of each dispatched run_agent_task coroutine
    closing,           \* cleanup_session calls awaiting close(), per user
    response,          \* status code of the last HTTP reply of server.py
    obs,               \* history: what the stall checks have observed per task
    last_scan          \* history: instant of the latest cleanup scan

vars == <<now, task_metrics, metrics_order, monitoring_active, loops,
          active_tasks, user_sessions, task_agents, executors, closing,
          response, obs, last_scan>>

monitor_vars == <<task_metrics, metrics_order, monitoring_active, loops, obs,
                  last_scan>>
server_vars == <<active_tasks, user_sessions, task_agents, executors, closing,
                 response>>
background_vars == <<closing, response>>

----------------------------------------------------------------------------
(* Bounds of the model *)

MaxTasks == 2
MaxSteps == 3
MaxTime == 90
LongStep == 60
CoarseStep == 30
FineStep == 10
MaxLoops == 2
MaxClosing == 1
MaxRetention == 7200
RetentionStep == 1800
TickStep == 5

(* Program constants *)

StallTimeout == 60
MaxStallChecks == 3
CleanupInterval == 300
CleanupAge == 3600
LoopSleep == 10
ErrorSleep == 5
DefaultMaxSteps == 30

Users == {"alice", "bob"}
TaskIds == 1 .. MaxTasks
\* The specifications of the monitor follow one record: the registry treats
\* each record on its own (no operation reads a record to write another).
WatchedIds == {1}
StepValues == 0 .. MaxSteps

\* monitoring.py:23-30  class TaskStatus(Enum)
QUEUED == "queued"
RUNNING == "running"
COMPLETED == "completed"
ERROR == "error"
CANCELLED == "cancelled"
STALLED == "stalled"
TaskStatus == {QUEUED, RUNNING, COMPLETED, ERROR, CANCELLED, STALLED}
ActiveStatus == {QUEUED, RUNNING}
TerminalStatus == {COMPLETED, ERROR, CANCELLED, STALLED}

(* Optional[T] is a set with at most one element: {} is None. *)
None == {}
Some(v) == {v}
IsSet(o) == o # {}
Val(o) == CHOOSE v \in o : TRUE

(* Error messages are <<text, number>>; the number is the formatted        *)
(* inactivity of the stall message and 0 for caller-supplied texts.        *)
EmptyMsg == <<"", 0>>
BoomMsg == <<"boom", 0>>
StallMsg(inactive_seconds) == <<"Task stalled", inactive_seconds>>
Truthy(msg) == IsSet(msg) /\ Val(msg)[1] # ""

----------------------------------------------------------------------------
(* monitoring.py : TaskMonitor *)

\* monitoring.py:33-48  dataclass TaskMetrics (resource_usage is never read
\* or written after construction and is left out)
NewMetrics(t, user_id, max_steps, clock) ==
    [ task_id          |-> t,
      user_id          |-> user_id,
      status           |-> QUEUED,
      steps_completed  |-> 0,
      steps_target     |-> max_steps,
      created_at       |-> clock,
      started_at       |-> None,
      completed_at     |-> None,
      last_activity    |-> None,
      duration_seconds |-> 0,
      error_message    |-> None,
      stall_count      |-> 0 ]

\* dict assignment d[k] = v
Put(d, k, v) == [x \in DOMAIN d \cup {k} |-> IF x = k THEN v ELSE d[x]]
\* del d[k] for every k in ks
Drop(d, ks) == [x \in DOMAIN d \ ks |-> d[x]]

\* the order of the keys of a dict after d[k] = v: a new key goes to the
\* end, a key the dict holds keeps its place
OrderPut(order, d, k) == IF k \in DOMAIN d THEN order ELSE Append(order, k)
\* the order of the keys after del d[k] for every k in ks
OrderDrop(order, ks) == SelectSeq(order, LAMBDA k : k \notin ks)

\* monitoring.py:71-92
register_task(tm, clock, t, user_id, max_steps) ==
    Put(tm, t, NewMetrics(t, user_id, max_steps, clock))

\* variant: the status update does not write last_activity
StatusUpdatedNoActivity(m, clock, status, steps, error_message) ==
    LET m1 == [m EXCEPT !.status = status]
        m2 == IF IsSet(steps)
              THEN [m1 EXCEPT !.steps_completed = Val(steps)] ELSE m1
        m3 == IF Truthy(error_message)
              THEN [m2 EXCEPT !.error_message = error_message] ELSE m2
    IN  IF status = RUNNING /\ m.status = QUEUED
        THEN [m3 EXCEPT !.started_at = Some(clock)]
        ELSE IF status \in {COMPLETED, ERROR, CANCELLED}
        THEN [m3 EXCEPT !.completed_at = Some(clock)]
        ELSE m3

\* monitoring.py:107-129: the record after update_task_status
StatusUpdated(m, clock, status, steps, error_message) ==
    LET m1 == [m EXCEPT !.status = status, !.last_activity = Some(clock)]
        m2 == IF IsSet(steps)
              THEN [m1 EXCEPT !.steps_completed = Val(steps)] ELSE m1
        m3 == IF Truthy(error_message)
              THEN [m2 EXCEPT !.error_message = error_message] ELSE m2
    IN  IF status = RUNNING /\ m.status = QUEUED
        THEN [m3 EXCEPT !.started_at = Some(clock)]
        ELSE IF status \in {COMPLETED, ERROR, CANCELLED}
        THEN [m3 EXCEPT !.completed_at = Some(clock),
                        !.duration_seconds =
                            IF IsSet(m3.started_at)
                            THEN clock - Val(m3.started_at)
                            ELSE m3.duration_seconds]
        ELSE m3

\* variant: a status update for an unknown id registers it on the fly
update_task_status_upsert(tm, clock, t, status, steps, error_message) ==
    IF t \notin DOMAIN tm
    THEN Put(tm, t, StatusUpdated(NewMetrics(t, "", DefaultMaxSteps, clock),
                                  clock, status, steps, error_message))
    ELSE [tm EXCEPT ![t] = StatusUpdated(tm[t], clock, status, steps, error_message)]

\* monitoring.py:94-131
update_task_status(tm, clock, t, status, steps, error_message) ==
    IF t \notin DOMAIN tm THEN tm
    ELSE [tm EXCEPT ![t] = StatusUpdated(tm[t], clock, status, steps, error_message)]

\* variant: the reported value is stored whatever the stored one is
update_task_progress_unordered(tm, clock, t, steps) ==
    IF t \notin DOMAIN tm THEN tm
    ELSE [tm EXCEPT ![t].steps_completed = steps,
                    ![t].last_activity = Some(clock),
                    ![t].stall_count = 0]

\* variant: an accepted report does not refresh last_activity
update_task_progress_stale(tm, clock, t, steps) ==
    IF t \notin DOMAIN tm THEN tm
    ELSE IF steps > tm[t].steps_completed
    THEN [tm EXCEPT ![t].steps_completed = steps,
                    ![t].stall_count = 0]
    ELSE tm

\* variant: every report refreshes last_activity, accepted or not
update_task_progress_heartbeat(tm, clock, t, steps) ==
    IF t \notin DOMAIN tm THEN tm
    ELSE IF steps > tm[t].steps_completed
    THEN [tm EXCEPT ![t].steps_completed = steps,
                    ![t].last_activity = Some(clock),
                    ![t].stall_count = 0]
    ELSE [tm EXCEPT ![t].last_activity = Some(clock)]

\* variant: a report equal to the stored value is accepted (>= instead of >)
update_task_progress_nonstrict(tm, clock, t, steps) ==
    IF t \notin DOMAIN tm THEN tm
    ELSE IF steps >= tm[t].steps_completed
    THEN [tm EXCEPT ![t].steps_completed = steps,
                    ![t].last_activity = Some(clock),
                    ![t].stall_count = 0]
    ELSE tm

\* monitoring.py:133-148
update_task_progress(tm, clock, t, steps) ==
    IF t \notin DOMAIN tm THEN tm
    ELSE IF steps > tm[t].steps_completed
    THEN [tm EXCEPT ![t].steps_completed = steps,
                    ![t].last_activity = Some(clock),
                    ![t].stall_count = 0]
    ELSE tm

\* variant: the age of the last activity is not compared with stall_timeout
InactiveNoTimeout(m, clock) ==
    /\ m.status = RUNNING
    /\ IsSet(m.last_activity)

\* monitoring.py:254-263: the stall check counts this record in this tick
Inactive(m, clock) ==
    /\ m.status = RUNNING
    /\ IsSet(m.last_activity)
    /\ clock - Val(m.last_activity) > StallTimeout

\* variant: escalation one detection late (> instead of >=)
StallCheckedLate(m, clock) ==
    IF ~Inactive(m, clock) THEN m
    ELSE LET m1 == [m EXCEPT !.stall_count = @ + 1]
         IN  IF m1.stall_count > MaxStallChecks
             THEN StatusUpdated(m1, clock, STALLED, None,
                                Some(StallMsg(clock - Val(m.last_activity))))
             ELSE m1

\* variant: escalation one detection early (the count is compared before
\* it is incremented)
StallCheckedEarly(m, clock) ==
    IF ~Inactive(m, clock) THEN m
    ELSE LET m1 == [m EXCEPT !.stall_count = @ + 1]
         IN  IF m1.stall_count >= MaxStallChecks - 1
             THEN StatusUpdated(m1, clock, STALLED, None,
                                Some(StallMsg(clock - Val(m.last_activity))))
             ELSE m1

\* monitoring.py:264-277: one record of the scan
StallChecked(m, clock) ==
    IF ~Inactive(m, clock) THEN m
    ELSE LET m1 == [m EXCEPT !.stall_count = @ + 1]
         IN  IF m1.stall_count >= MaxStallChecks
             THEN StatusUpdated(m1, clock, STALLED, None,
                                Some(StallMsg(clock - Val(m.last_activity))))
             ELSE m1

\* monitoring.py:248-277 (the scan has no await: it runs without interleaving)
_check_stalled_tasks(tm, clock) ==
    [t \in DOMAIN tm |-> StallChecked(tm[t], clock)]

\* variant: a record is removed as soon as its age reaches the window
CleanupCandidatesEager(tm, clock) ==
    { t \in DOMAIN tm :
        /\ tm[t].status \in {COMPLETED, ERROR, CANCELLED}
        /\ IsSet(tm[t].completed_at)
        /\ clock - Val(tm[t].completed_at) >= CleanupAge }

\* monitoring.py:287-297
CleanupCandidates(tm, clock) ==
    { t \in DOMAIN tm :
        /\ tm[t].status \in {COMPLETED, ERROR, CANCELLED}
        /\ IsSet(tm[t].completed_at)
        /\ clock - Val(tm[t].completed_at) > CleanupAge }

\* monitoring.py:279-304
_cleanup_old_tasks(tm, clock) == Drop(tm, CleanupCandidates(tm, clock))

\* variant: only running records count as active
get_active_tasks_running_only(tm) ==
    { t \in DOMAIN tm : tm[t].status = RUNNING }

\* monitoring.py:161-166: the ids of the records of the list (callers of
\* the model use its length only)
get_active_tasks(tm) ==
    { t \in DOMAIN tm : tm[t].status \in {QUEUED, RUNNING} }

\* monitoring.py:168-194
get_system_stats(tm, active) ==
    [ total_tasks       |-> Cardinality(DOMAIN tm),
      active_tasks      |-> Cardinality(get_active_tasks(tm)),
      active_users      |-> Cardinality({ tm[t].user_id :
                                t \in { x \in DOMAIN tm :
                                          tm[x].status \in {QUEUED, RUNNING} } }),
      status_counts     |-> [s \in TaskStatus |->
                                Cardinality({ t \in DOMAIN tm : tm[t].status = s })],
      monitoring_active |-> active ]

----------------------------------------------------------------------------
(* History of each registered task, kept beside the registry and never     *)
(* read by it:                                                             *)
(*   reported = largest value passed to update_task_progress since the     *)
(*              registration or the last status update that itself wrote   *)
(*              a step count (counted from the value it wrote),            *)
(*   reset_at = instant of the registration or of the last accepted        *)
(*              progress report, whichever is later,                       *)
(*   idle     = stall checks since reset_at that found the record running  *)
(*              and inactive for more than stall_timeout,                  *)
(*   consec   = consecutive such checks with no progress report between.   *)

NewObs(clock) == [reported |-> 0, reset_at |-> clock, idle |-> 0, consec |-> 0]

Max(a, b) == IF a >= b THEN a ELSE b

FoundIdle(m, clock) ==
    /\ m.status = RUNNING
    /\ IsSet(m.last_activity)
    /\ clock - Val(m.last_activity) > StallTimeout

ObsChecked(o, m, clock) ==
    IF FoundIdle(m, clock)
    THEN [o EXCEPT !.idle = @ + 1, !.consec = @ + 1]
    ELSE [o EXCEPT !.consec = 0]

ObsAfterCheck(tm, clock) ==
    [t \in DOMAIN tm |-> ObsChecked(obs[t], tm[t], clock)]

ObsAfterStatus(tm, t, steps) ==
    IF t \in DOMAIN tm /\ IsSet(steps)
    THEN [obs EXCEPT ![t].reported = Val(steps)]
    ELSE obs

ObsAfterProgress(tm, clock, t, steps) ==
    IF t \notin DOMAIN tm THEN obs
    ELSE IF steps > tm[t].steps_completed
    THEN [obs EXCEPT ![t] = [reported |-> Max(obs[t].reported, steps),
                             reset_at |-> clock, idle |-> 0, consec |-> 0]]
    ELSE [obs EXCEPT ![t].reported = Max(@, steps), ![t].consec = 0]

----------------------------------------------------------------------------
(* monitoring.py:221-246  _monitoring_loop, one asyncio task per entry of  *)
(* loops; the task start_monitoring created last is _monitor_task.         *)

NewLoop == [pc |-> "created", wake_at |-> 0, last_cleanup |-> 0]

\* monitoring.py:228-238: the body of one pass of the while loop up to its
\* sleep; neither scan awaits, so the pass is one step
LoopPass(tm, clock, last_cleanup) ==
    LET checked == _check_stalled_tasks(tm, clock)
        due == clock - last_cleanup > CleanupInterval
    IN  [ tm           |-> IF due THEN _cleanup_old_tasks(checked, clock) ELSE checked,
          last_cleanup |-> IF due THEN clock ELSE last_cleanup,
          scanned      |-> due ]

\* variant: the pass does not sleep before the next one
LoopRunsNoSleep(i, last_cleanup) ==
    LET pass == LoopPass(task_metrics, now, last_cleanup)
        seen == ObsAfterCheck(task_metrics, now)
    IN  /\ task_metrics' = pass.tm
        /\ metrics_order' = OrderDrop(metrics_order,
                                      DOMAIN task_metrics \ DOMAIN pass.tm)
        /\ obs' = [t \in DOMAIN pass.tm |-> seen[t]]
        /\ last_scan' = IF pass.scanned THEN Some(now) ELSE last_scan
        /\ loops' = [loops EXCEPT ![i] = [pc |-> "sleeping",
                                          wake_at |-> now,
                                          last_cleanup |-> pass.last_cleanup]]

\* monitoring.py:228-238 run by loop i
LoopRuns(i, last_cleanup) ==
    LET pass == LoopPass(task_metrics, now, last_cleanup)
        seen == ObsAfterCheck(task_metrics, now)
    IN  /\ task_metrics' = pass.tm
        /\ metrics_order' = OrderDrop(metrics_order,
                                      DOMAIN task_metrics \ DOMAIN pass.tm)
        /\ obs' = [t \in DOMAIN pass.tm |-> seen[t]]
        /\ last_scan' = IF pass.scanned THEN Some(now) ELSE last_scan
        /\ loops' = [loops EXCEPT ![i] = [pc |-> "sleeping",
                                          wake_at |-> now + LoopSleep,
                                          last_cleanup |-> pass.last_cleanup]]

LoopEnds(i) ==
    /\ loops' = [loops EXCEPT ![i].pc = "done"]
    /\ UNCHANGED <<task_metrics, metrics_order, obs, last_scan>>

\* variant: an exception in the pass ends the loop
LoopFailsForGood(i, last_cleanup, checked) == LoopEnds(i)

\* monitoring.py:228-235, 242-244: the pass raises, before the stall check
\* has written anything or after it is through (checked); the handler logs
\* and sleeps 5 s
LoopFails(i, last_cleanup, checked) ==
    /\ task_metrics' = IF checked THEN _check_stalled_tasks(task_metrics, now)
                                  ELSE task_metrics
    /\ obs' = IF checked THEN ObsAfterCheck(task_metrics, now) ELSE obs
    /\ loops' = [loops EXCEPT ![i] = [pc |-> "backoff",
                                      wake_at |-> now + ErrorSleep,
                                      last_cleanup |-> last_cleanup]]
    /\ UNCHANGED <<last_scan, metrics_order>>

\* monitoring.py:224-227: the task starts running
LoopBegin(i) ==
    /\ loops[i].pc = "created"
    /\ IF monitoring_active THEN LoopRuns(i, now) ELSE LoopEnds(i)
    /\ UNCHANGED <<now, monitoring_active, server_vars>>

\* monitoring.py:238, 227: asyncio.sleep(10) returns, the while test runs
LoopWake(i) ==
    /\ loops[i].pc \in {"sleeping", "backoff"}
    /\ now >= loops[i].wake_at
    /\ IF monitoring_active THEN LoopRuns(i, loops[i].last_cleanup) ELSE LoopEnds(i)
    /\ UNCHANGED <<now, monitoring_active, server_vars>>

\* monitoring.py:227-235, 242-244: a pass of loop i that raises
LoopRaised(i, checked) ==
    /\ monitoring_active
    /\ \/ loops[i].pc = "created" /\ LoopFails(i, now, checked)
       \/ /\ loops[i].pc \in {"sleeping", "backoff"}
          /\ now >= loops[i].wake_at
          /\ LoopFails(i, loops[i].last_cleanup, checked)
    /\ UNCHANGED <<now, monitoring_active, server_vars>>

\* monitoring.py:240-241: CancelledError is delivered to the task
LoopCancelled(i) ==
    /\ loops[i].pc = "cancelling"
    /\ LoopEnds(i)
    /\ UNCHANGED <<now, monitoring_active, server_vars>>

\* variant: the flag is not tested, every call creates a loop
StartMonitoringUnguarded ==
    /\ Len(loops) < MaxLoops
    /\ monitoring_active' = TRUE
    /\ loops' = Append(loops, NewLoop)
    /\ UNCHANGED <<now, task_metrics, metrics_order, obs, last_scan, server_vars>>

\* monitoring.py:196-205
StartMonitoring ==
    /\ IF monitoring_active
       THEN UNCHANGED <<monitoring_active, loops>>
       ELSE /\ Len(loops) < MaxLoops
            /\ monitoring_active' = TRUE
            /\ loops' = Append(loops, NewLoop)
    /\ UNCHANGED <<now, task_metrics, metrics_order, obs, last_scan, server_vars>>

\* variant: the flag is cleared and the task is not cancelled
StopMonitoringNoCancel ==
    /\ monitoring_active' = FALSE
    /\ UNCHANGED <<now, task_metrics, metrics_order, obs, last_scan, server_vars,
                   loops>>

\* monitoring.py:207-219
StopMonitoring ==
    /\ monitoring_active' = FALSE
    /\ loops' = IF Len(loops) > 0 /\ loops[Len(loops)].pc # "done"
                THEN [loops EXCEPT ![Len(loops)].pc = "cancelling"]
                ELSE loops
    /\ UNCHANGED <<now, task_metrics, metrics_order, obs, last_scan, server_vars>>

----------------------------------------------------------------------------
(* Calls into the monitor *)

\* monitoring.py:312-314, 71-92: for an id the registry holds, the record is
\* replaced by a fresh one and the history of the task starts again
RegisterTask(t, user_id, max_steps) ==
    /\ task_metrics' = register_task(task_metrics, now, t, user_id, max_steps)
    /\ metrics_order' = OrderPut(metrics_order, task_metrics, t)
    /\ obs' = Put(obs, t, NewObs(now))
    /\ UNCHANGED <<now, monitoring_active, loops, last_scan, server_vars>>

\* monitoring.py:317-325
UpdateTaskStatus(t, status, steps, error_message) ==
    /\ task_metrics' = update_task_status(task_metrics, now, t, status, steps, error_message)
    /\ obs' = ObsAfterStatus(task_metrics, t, steps)
    /\ UNCHANGED <<now, metrics_order, monitoring_active, loops, last_scan, server_vars>>

\* monitoring.py:328-330
UpdateTaskProgress(t, steps) ==
    /\ task_metrics' = update_task_progress(task_metrics, now, t, steps)
    /\ obs' = ObsAfterProgress(task_metrics, now, t, steps)
    /\ UNCHANGED <<now, metrics_order, monitoring_active, loops, last_scan, server_vars>>

\* monitoring.py:248 called on its own, outside the loop
CheckStalledTasks ==
    /\ task_metrics' = _check_stalled_tasks(task_metrics, now)
    /\ obs' = ObsAfterCheck(task_metrics, now)
    /\ UNCHANGED <<now, metrics_order, monitoring_active, loops, last_scan, server_vars>>

\* monitoring.py:279 called on its own, outside the loop
CleanupOldTasks ==
    /\ task_metrics' = _cleanup_old_tasks(task_metrics, now)
    /\ metrics_order' = OrderDrop(metrics_order, CleanupCandidates(task_metrics, now))
    /\ obs' = [t \in DOMAIN task_metrics' |-> obs[t]]
    /\ last_scan' = Some(now)
    /\ UNCHANGED <<now, monitoring_active, loops, server_vars>>

\* time passes on the scale of the retention window
LongWait(d) ==
    /\ now + d <= MaxRetention
    /\ now' = now + d
    /\ UNCHANGED <<monitor_vars, server_vars>>

\* time passes
AdvanceTime(d) ==
    /\ now + d <= MaxTime
    /\ now' = now + d
    /\ UNCHANGED <<monitor_vars, server_vars>>

\* max_steps of the registered tasks: the default and a short task
StepTargets == {DefaultMaxSteps, MaxSteps}
StepInputs == {None} \cup {Some(n) : n \in StepValues}
MsgInputs == {None, Some(EmptyMsg), Some(BoomMsg)}

----------------------------------------------------------------------------
(* server.py *)

\* server.py:227-237 (session_id, task, max_steps and model are stored and
\* never changed: left out)
NewTaskInfo(t, user_id, clock) ==
    [ task_id         |-> t,
      user_id         |-> user_id,
      status          |-> QUEUED,
      steps_completed |-> 0,
      created_at      |-> clock,
      completed_at    |-> None,
      error_message   |-> None ]

\* variant: a running record of any user blocks the submit
user_active_tasks_global(tasks, user_id) ==
    { t \in DOMAIN tasks : tasks[t].status = RUNNING }

\* server.py:215-218
user_active_tasks(tasks, user_id) ==
    { t \in DOMAIN tasks : tasks[t].user_id = user_id /\ tasks[t].status = RUNNING }

\* server.py:208: task ids are unique; the model numbers them in order
NextTaskId == Cardinality(DOMAIN active_tasks) + 1

\* variant: the record is stored before the conflict test
ExecuteTaskRegistersFirst(user_id) ==
    /\ NextTaskId \in TaskIds
    /\ active_tasks' = Put(active_tasks, NextTaskId,
                           NewTaskInfo(NextTaskId, user_id, now))
    /\ IF user_active_tasks(active_tasks, user_id) # {}
       THEN /\ response' = 409
            /\ UNCHANGED executors
       ELSE /\ executors' = Put(executors, NextTaskId,
                                [pc |-> "pending", session |-> 0])
            /\ response' = 200
    /\ UNCHANGED <<now, user_sessions, task_agents, closing, monitor_vars>>

\* variant: the handler marks the record running before it replies
ExecuteTaskRunsInline(user_id) ==
    /\ NextTaskId \in TaskIds
    /\ IF user_active_tasks(active_tasks, user_id) # {}
       THEN /\ response' = 409
            /\ UNCHANGED <<active_tasks, executors>>
       ELSE /\ active_tasks' = Put(active_tasks, NextTaskId,
                                   [NewTaskInfo(NextTaskId, user_id, now)
                                        EXCEPT !.status = RUNNING])
            /\ executors' = Put(executors, NextTaskId,
                                [pc |-> "pending", session |-> 0])
            /\ response' = 200
    /\ UNCHANGED <<now, user_sessions, task_agents, closing, monitor_vars>>

\* server.py:234: datetime.isoformat() of an instant of the first day, as
\* the digits of its HH:MM:SS part (the date and the offset are the same in
\* every string)
isoformat(clock) ==
    LET h == clock \div 3600
        m == (clock % 3600) \div 60
        sec == clock % 60
    IN  <<h \div 10, h % 10, m \div 10, m % 10, sec \div 10, sec % 10>>

\* str.__gt__: the first position where two strings of equal length differ
\* decides
StrGreater(a, b) ==
    \E i \in 1 .. Len(a) :
        /\ a[i] > b[i]
        /\ \A j \in 1 .. (i - 1) : a[j] = b[j]

\* server.py:438: sorted(..., key=created_at, reverse=True) over task ids in
\* dict order; the sort is stable, records with equal keys keep their order
RECURSIVE sorted_reverse(_, _)
sorted_reverse(ids, tasks) ==
    IF ids = <<>> THEN <<>>
    ELSE LET rest == sorted_reverse(Tail(ids), tasks)
             key == isoformat(tasks[Head(ids)].created_at)
             k == Cardinality({ i \in 1 .. Len(rest) :
                                  StrGreater(isoformat(tasks[rest[i]].created_at), key) })
         IN  SubSeq(rest, 1, k) \o <<Head(ids)>> \o SubSeq(rest, k + 1, Len(rest))

\* the keys of active_tasks in dict order: execute_task hands the ids out
\* in increasing order and no key is ever removed, so insertion order is id
\* order
DictOrder(d) ==
    SelectSeq([i \in 1 .. MaxTasks |-> i], LAMBDA t : t \in DOMAIN d)

\* server.py:423-439  GET /user-tasks/{user_id}: the ids of the "tasks" list
get_user_tasks(tasks, user_id) ==
    sorted_reverse(SelectSeq(DictOrder(tasks), LAMBDA t : tasks[t].user_id = user_id),
                   tasks)

\* monitoring.py:154-159: the ids of the list, in the order of the dict
TaskMonitor_get_user_tasks(tm, order, user_id) ==
    SelectSeq(order, LAMBDA t : tm[t].user_id = user_id)

\* server.py:348-385  GET /task-status/{task_id}: the reply (the file
\* fields are left out)
get_task_status(tasks, t) ==
    IF t \notin DOMAIN tasks
    THEN [code |-> 404]
    ELSE [code            |-> 200,
          task_id         |-> t,
          user_id         |-> tasks[t].user_id,
          status          |-> tasks[t].status,
          steps_completed |-> tasks[t].steps_completed,
          created_at      |-> tasks[t].created_at,
          completed_at    |-> tasks[t].completed_at,
          error_message   |-> tasks[t].error_message]

\* server.py:199-248  POST /execute-task
ExecuteTask(user_id) ==
    /\ NextTaskId \in TaskIds
    /\ IF user_active_tasks(active_tasks, user_id) # {}
       THEN /\ response' = 409
            /\ UNCHANGED <<active_tasks, executors>>
       ELSE /\ active_tasks' = Put(active_tasks, NextTaskId,
                                   NewTaskInfo(NextTaskId, user_id, now))
            /\ executors' = Put(executors, NextTaskId,
                                [pc |-> "pending", session |-> 0])
            /\ response' = 200
    /\ UNCHANGED <<now, user_sessions, task_agents, closing, monitor_vars>>

\* variant: the failure is dropped without a trace on the record
FailedUnrecorded(t, tasks, execs) ==
    /\ active_tasks' = tasks
    /\ task_agents' = Drop(task_agents, {t})
    /\ executors' = [execs EXCEPT ![t].pc = "done"]

\* server.py:326-330, 342-345: the except and finally blocks
Failed(t, tasks, execs) ==
    /\ active_tasks' = [tasks EXCEPT ![t].status = ERROR,
                                     ![t].error_message = Some(BoomMsg),
                                     ![t].completed_at = Some(now)]
    /\ task_agents' = Drop(task_agents, {t})
    /\ executors' = [execs EXCEPT ![t].pc = "done"]

\* server.py:263-294: with the session in hand, build the agent and await
\* agent.run(); ok = FALSE when one of these calls raises
AgentSetup(t, tasks, execs, ok) ==
    IF ok
    THEN /\ active_tasks' = tasks
         /\ task_agents' = Put(task_agents, t, [stopped |-> FALSE])
         /\ executors' = [execs EXCEPT ![t].pc = "run"]
    ELSE Failed(t, tasks, execs)

\* server.py:254-261, 111-138: run_agent_task starts; a user with a session
\* gets it back at once (line 143); a user without one has a handle
\* constructed, named after the task, and awaits its start(). ok = FALSE
\* when a call before the next await raises.
RunAgentTask(t, ok) ==
    /\ t \in DOMAIN executors
    /\ executors[t].pc = "pending"
    /\ LET running == [active_tasks EXCEPT ![t].status = RUNNING]
           user_id == active_tasks[t].user_id
       IN  IF user_id \in DOMAIN user_sessions
           THEN AgentSetup(t, running,
                           [executors EXCEPT ![t].session = user_sessions[user_id]], ok)
           ELSE IF ~ok
           THEN Failed(t, running, executors)
           ELSE /\ active_tasks' = running
                /\ executors' = [executors EXCEPT ![t] = [pc |-> "session", session |-> t]]
                /\ UNCHANGED task_agents
    /\ UNCHANGED <<now, user_sessions, background_vars, monitor_vars>>

\* server.py:138-143: session.start() returned; the handle is stored and
\* returned
SessionStarted(t, ok) ==
    /\ t \in DOMAIN executors
    /\ executors[t].pc = "session"
    /\ user_sessions' = Put(user_sessions, active_tasks[t].user_id, executors[t].session)
    /\ AgentSetup(t, active_tasks, executors, ok)
    /\ UNCHANGED <<now, background_vars, monitor_vars>>

\* server.py:138, 322: session.start() raised
SessionFailed(t) ==
    /\ t \in DOMAIN executors
    /\ executors[t].pc = "session"
    /\ Failed(t, active_tasks, [executors EXCEPT ![t].session = 0])
    /\ UNCHANGED <<now, user_sessions, background_vars, monitor_vars>>

\* variant: without the finally block the agent entry stays in the table
AgentReturnedKeepsAgent(t, ok) ==
    /\ t \in DOMAIN executors
    /\ executors[t].pc = "run"
    /\ active_tasks' = IF ok
                       THEN [active_tasks EXCEPT ![t].status = COMPLETED,
                                                 ![t].completed_at = Some(now)]
                       ELSE [active_tasks EXCEPT ![t].status = ERROR,
                                                 ![t].error_message = Some(BoomMsg),
                                                 ![t].completed_at = Some(now)]
    /\ executors' = [executors EXCEPT ![t].pc = "done"]
    /\ UNCHANGED <<now, user_sessions, task_agents, background_vars, monitor_vars>>

\* server.py:294-320, 342-345: agent.run() returned; ok = FALSE when
\* writing the history file raises
AgentReturned(t, ok) ==
    /\ t \in DOMAIN executors
    /\ executors[t].pc = "run"
    /\ IF ok
       THEN /\ active_tasks' = [active_tasks EXCEPT ![t].status = COMPLETED,
                                                    ![t].completed_at = Some(now)]
            /\ task_agents' = Drop(task_agents, {t})
            /\ executors' = [executors EXCEPT ![t].pc = "done"]
       ELSE Failed(t, active_tasks, executors)
    /\ UNCHANGED <<now, user_sessions, background_vars, monitor_vars>>

\* server.py:294, 322-345: agent.run() raised
AgentRaised(t) ==
    /\ t \in DOMAIN executors
    /\ executors[t].pc = "run"
    /\ Failed(t, active_tasks, executors)
    /\ UNCHANGED <<now, user_sessions, background_vars, monitor_vars>>

\* variant: with an agent at work the call only raises the stop flag and
\* leaves the record to the executor
CancelTaskDeferred(t) ==
    /\ IF t \notin DOMAIN active_tasks
       THEN /\ response' = 404
            /\ UNCHANGED <<active_tasks, task_agents>>
       ELSE IF active_tasks[t].status \notin {QUEUED, RUNNING}
       THEN /\ response' = 400
            /\ UNCHANGED <<active_tasks, task_agents>>
       ELSE IF t \in DOMAIN task_agents
       THEN /\ task_agents' = [task_agents EXCEPT ![t].stopped = TRUE]
            /\ response' = 200
            /\ UNCHANGED active_tasks
       ELSE /\ active_tasks' = [active_tasks EXCEPT ![t].status = CANCELLED,
                                                    ![t].completed_at = Some(now)]
            /\ response' = 200
            /\ UNCHANGED task_agents
    /\ UNCHANGED <<now, user_sessions, executors, closing, monitor_vars>>

\* variant: the status of the record is not tested
CancelTaskAnyState(t) ==
    /\ IF t \notin DOMAIN active_tasks
       THEN /\ response' = 404
            /\ UNCHANGED <<active_tasks, task_agents>>
       ELSE /\ task_agents' = IF t \in DOMAIN task_agents
                              THEN [task_agents EXCEPT ![t].stopped = TRUE]
                              ELSE task_agents
            /\ active_tasks' = [active_tasks EXCEPT ![t].status = CANCELLED,
                                                    ![t].completed_at = Some(now)]
            /\ response' = 200
    /\ UNCHANGED <<now, user_sessions, executors, closing, monitor_vars>>

\* server.py:388-420  POST /task-cancel/{task_id}
CancelTask(t) ==
    /\ IF t \notin DOMAIN active_tasks
       THEN /\ response' = 404
            /\ UNCHANGED <<active_tasks, task_agents>>
       ELSE IF active_tasks[t].status \notin {QUEUED, RUNNING}
       THEN /\ response' = 400
            /\ UNCHANGED <<active_tasks, task_agents>>
       ELSE /\ task_agents' = IF t \in DOMAIN task_agents
                              THEN [task_agents EXCEPT ![t].stopped = TRUE]
                              ELSE task_agents
            /\ active_tasks' = [active_tasks EXCEPT ![t].status = CANCELLED,
                                                    ![t].completed_at = Some(now)]
            /\ response' = 200
    /\ UNCHANGED <<now, user_sessions, executors, closing, monitor_vars>>

\* server.py:442-449, 146-150: DELETE /user-session/{user_id}; with a
\* handle in the registry the call awaits its close(), without one it
\* replies at once
CleanupUserSession(user_id) ==
    /\ IF user_id \in DOMAIN user_sessions
       THEN /\ closing[user_id] < MaxClosing
            /\ closing' = [closing EXCEPT ![user_id] = @ + 1]
            /\ UNCHANGED response
       ELSE /\ response' = 200
            /\ UNCHANGED closing
    /\ UNCHANGED <<now, active_tasks, user_sessions, task_agents, executors,
                   monitor_vars>>

\* variant: releasing the session also evicts the records of the user
SessionClosedEvicts(user_id, ok) ==
    /\ closing[user_id] > 0
    /\ closing' = [closing EXCEPT ![user_id] = @ - 1]
    /\ user_sessions' = IF ok THEN Drop(user_sessions, {user_id}) ELSE user_sessions
    /\ active_tasks' = Drop(active_tasks,
                            { t \in DOMAIN active_tasks :
                                active_tasks[t].user_id = user_id })
    /\ response' = 200
    /\ UNCHANGED <<now, task_agents, executors, monitor_vars>>

\* server.py:150-154, 451: close() returned (ok) or raised; del raises
\* KeyError when another call removed the entry meanwhile, which the except
\* clause swallows as well
SessionClosed(user_id, ok) ==
    /\ closing[user_id] > 0
    /\ closing' = [closing EXCEPT ![user_id] = @ - 1]
    /\ user_sessions' = IF ok THEN Drop(user_sessions, {user_id}) ELSE user_sessions
    /\ response' = 200
    /\ UNCHANGED <<now, active_tasks, task_agents, executors, monitor_vars>>

----------------------------------------------------------------------------
(* Specifications *)

Init ==
    /\ now = 0
    /\ task_metrics = <<>>
    /\ metrics_order = <<>>
    /\ monitoring_active = FALSE
    /\ loops = <<>>
    /\ active_tasks = <<>>
    /\ user_sessions = <<>>
    /\ task_agents = <<>>
    /\ executors = <<>>
    /\ closing = [u \in Users |-> 0]
    /\ response = 0
    /\ obs = <<>>
    /\ last_scan = None

\* the orchestrator of server.py
ServerNext ==
    \/ \E u \in Users : ExecuteTask(u)
    \/ \E t \in TaskIds, ok \in BOOLEAN : RunAgentTask(t, ok)
    \/ \E t \in TaskIds, ok \in BOOLEAN : SessionStarted(t, ok)
    \/ \E t \in TaskIds : SessionFailed(t)
    \/ \E t \in TaskIds, ok \in BOOLEAN : AgentReturned(t, ok)
    \/ \E t \in TaskIds : AgentRaised(t)
    \/ \E t \in TaskIds : CancelTask(t)
    \/ AdvanceTime(LongStep)

SpecServer == Init /\ [][ServerNext]_vars

\* a step of the background coroutine of task t: the event loop runs it
\* when it is ready, an awaited call has returned or raised
ExecutorStep(t) ==
    \/ \E ok \in BOOLEAN : RunAgentTask(t, ok)
    \/ \E ok \in BOOLEAN : SessionStarted(t, ok)
    \/ SessionFailed(t)
    \/ \E ok \in BOOLEAN : AgentReturned(t, ok)
    \/ AgentRaised(t)

\* the orchestrator with background tasks that are scheduled and awaited
\* calls (session start, agent run) that come back
SpecServerLive ==
    /\ SpecServer
    /\ \A t \in TaskIds : WF_vars(ExecutorStep(t))

\* the orchestrator together with explicit session release
SessionNext ==
    \/ ServerNext
    \/ \E u \in Users : CleanupUserSession(u)
    \/ \E u \in Users, ok \in BOOLEAN : SessionClosed(u, ok)

SpecSession == Init /\ [][SessionNext]_vars

\* the registry of monitoring.py driven through its calls, with stall checks
\* at arbitrary instants
MonitorCalls ==
    \/ \E t \in WatchedIds, u \in Users : RegisterTask(t, u, DefaultMaxSteps)
    \/ \E t \in WatchedIds, s \in TaskStatus, n \in StepInputs, e \in MsgInputs :
          UpdateTaskStatus(t, s, n, e)
    \/ \E t \in WatchedIds, n \in StepValues : UpdateTaskProgress(t, n)

MonitorNext == MonitorCalls \/ CheckStalledTasks \/ AdvanceTime(CoarseStep)

SpecMonitor == Init /\ [][MonitorNext]_vars

\* the monitoring loop started, stopped and restarted at any instant, with
\* passes that return (10 s sleep) or raise (5 s back-off) and wake on time
\* or late, watching a task that is registered and begun at boot and reports
\* progress at any instant; the clock moves in steps of 10 s
LoopNext ==
    \/ StartMonitoring
    \/ StopMonitoring
    \/ \E i \in 1 .. Len(loops) : LoopBegin(i)
    \/ \E i \in 1 .. Len(loops) : LoopWake(i)
    \/ \E i \in 1 .. Len(loops), checked \in BOOLEAN : LoopRaised(i, checked)
    \/ \E i \in 1 .. Len(loops) : LoopCancelled(i)
    \/ \E t \in WatchedIds : now = 0 /\ RegisterTask(t, "alice", DefaultMaxSteps)
    \/ \E t \in WatchedIds : now = 0 /\ UpdateTaskStatus(t, RUNNING, None, None)
    \/ \E t \in WatchedIds, n \in StepValues : UpdateTaskProgress(t, n)
    \/ AdvanceTime(FineStep)

SpecLoop == Init /\ [][LoopNext]_vars

\* the same calls with the clock in steps of 5 s, the back-off of a pass
\* that raised. start_monitoring is called once the clock has reached
\* stall_timeout: an earlier pass finds no record inactive (last_activity
\* >= 0) and no cleanup due, so an earlier start differs only in the phase
\* of the loop, and a start at 60, 65, ... produces every phase of the grid
GraceNext ==
    \/ now >= StallTimeout /\ StartMonitoring
    \/ StopMonitoring
    \/ \E i \in 1 .. Len(loops) : LoopBegin(i)
    \/ \E i \in 1 .. Len(loops) : LoopWake(i)
    \/ \E i \in 1 .. Len(loops), checked \in BOOLEAN : LoopRaised(i, checked)
    \/ \E i \in 1 .. Len(loops) : LoopCancelled(i)
    \/ \E t \in WatchedIds : now = 0 /\ RegisterTask(t, "alice", DefaultMaxSteps)
    \/ \E t \in WatchedIds : now = 0 /\ UpdateTaskStatus(t, RUNNING, None, None)
    \/ \E t \in WatchedIds, n \in StepValues : UpdateTaskProgress(t, n)
    \/ AdvanceTime(TickStep)

SpecGrace == Init /\ [][GraceNext]_vars

\* the monitoring loop started, stopped and restarted, with passes that may
\* raise, over an empty registry
LifecycleNext ==
    \/ StartMonitoring
    \/ StopMonitoring
    \/ \E i \in 1 .. Len(loops) : LoopBegin(i)
    \/ \E i \in 1 .. Len(loops) : LoopWake(i)
    \/ \E i \in 1 .. Len(loops), checked \in BOOLEAN : LoopRaised(i, checked)
    \/ \E i \in 1 .. Len(loops) : LoopCancelled(i)
    \/ AdvanceTime(TickStep)

SpecLifecycle == Init /\ [][LifecycleNext]_vars

\* a step of loop i: asyncio runs a task that is ready
LoopStep(i) ==
    /\ i <= Len(loops)
    /\ \/ LoopBegin(i)
       \/ LoopWake(i)
       \/ \E checked \in BOOLEAN : LoopRaised(i, checked)
       \/ LoopCancelled(i)

\* the same with time that goes on and tasks that are scheduled
SpecLifecycleLive ==
    /\ SpecLifecycle
    /\ WF_vars(AdvanceTime(TickStep))
    /\ \A i \in 1 .. MaxLoops : WF_vars(LoopStep(i))

\* both registries filled with the tasks of the users, registered with the
\* monitor in any order, an id possibly again, with either step target
ListingNext ==
    \/ \E u \in Users : ExecuteTask(u)
    \/ \E t \in TaskIds, u \in Users, k \in StepTargets : RegisterTask(t, u, k)
    \/ AdvanceTime(CoarseStep)

SpecListing == Init /\ [][ListingNext]_vars

\* a task of alice submitted to the server and followed by the monitor under
\* the same id
StatusNext ==
    \/ ExecuteTask("alice")
    \/ \E t \in TaskIds : RunAgentTask(t, TRUE)
    \/ \E t \in TaskIds : SessionStarted(t, TRUE)
    \/ \E t \in WatchedIds : RegisterTask(t, "alice", DefaultMaxSteps)
    \/ \E t \in WatchedIds : UpdateTaskStatus(t, RUNNING, None, None)
    \/ CheckStalledTasks
    \/ AdvanceTime(CoarseStep)

SpecStatus == Init /\ [][StatusNext]_vars

\* the registry over hours: status updates, stall checks and cleanup scans
\* at arbitrary instants
RetentionNext ==
    \/ \E t \in WatchedIds : RegisterTask(t, "alice", DefaultMaxSteps)
    \/ \E t \in WatchedIds, s \in TaskStatus : UpdateTaskStatus(t, s, None, None)
    \/ CheckStalledTasks
    \/ CleanupOldTasks
    \/ LongWait(RetentionStep)

SpecRetention == Init /\ [][RetentionNext]_vars

\* the messages of the status updates made on the registry below (the
\* step count comes from progress reports of the last step)
RegistryMsgs == {None, Some(BoomMsg)}

\* the registry with the records of several users, written through every
\* call of the monitor, for ids that are registered and ids that are not
RegistryNext ==
    \/ \E t \in TaskIds, u \in Users : RegisterTask(t, u, DefaultMaxSteps)
    \/ \E t \in TaskIds, s \in TaskStatus, e \in RegistryMsgs :
          UpdateTaskStatus(t, s, None, e)
    \/ \E t \in TaskIds : UpdateTaskProgress(t, MaxSteps)

SpecRegistry == Init /\ [][RegistryNext]_vars

\* every operation of the two modules
Next ==
    \/ SessionNext
    \/ MonitorNext
    \/ LoopNext
    \/ GraceNext
    \/ RetentionNext
    \/ ListingNext
    \/ StatusNext
    \/ LifecycleNext
    \/ RegistryNext

Spec == Init /\ [][Next]_vars

----------------------------------------------------------------------------
(* Properties *)

ActiveOf(tasks, user_id) ==
    { t \in DOMAIN tasks : tasks[t].user_id = user_id /\ tasks[t].status \in ActiveStatus }

\* C1: every user owns at most one record whose status is queued or running.
\* Fails on server.py: the admission check of execute_task counts running
\* records only, so a user with a queued record is admitted again.
ExclusivityInvariant ==
    \A u \in Users : Cardinality(ActiveOf(active_tasks, u)) <= 1

\* a step of execute_task that admitted a new record for user_id
Admitted(user_id) ==
    \E t \in DOMAIN active_tasks' \ DOMAIN active_tasks :
        active_tasks'[t].user_id = user_id

\* C2: a submit is never admitted for a user who already has a queued or
\* running record. Fails: a second submit while the first is still queued.
SubmitRejectsActiveUser ==
    [][\A u \in Users : Admitted(u) => ActiveOf(active_tasks, u) = {}]_vars

StatusAbsorbed(before, after) ==
    \A t \in DOMAIN before \cap DOMAIN after :
        before[t].status \in TerminalStatus => after[t].status = before[t].status

\* C3: once a record is completed, error, cancelled or stalled, no step
\* changes its status. Fails: run_agent_task overwrites a cancelled record.
TerminalAbsorbing ==
    [][/\ StatusAbsorbed(active_tasks, active_tasks')
       /\ StatusAbsorbed(task_metrics, task_metrics')]_vars

\* C4: steps_completed of a record never decreases. Fails:
\* update_task_status stores the step count it is given.
StepsNeverDecrease ==
    [][\A t \in DOMAIN task_metrics \cap DOMAIN task_metrics' :
          task_metrics'[t].steps_completed >= task_metrics[t].steps_completed]_vars

\* C5: steps_completed is the maximum of the starting value and of every
\* value reported through update_task_progress, in whatever order.
ProgressIsMax ==
    \A t \in DOMAIN task_metrics :
        task_metrics[t].steps_completed = obs[t].reported

\* C5 witness: the record holds the largest step count and its last
\* activity is a progress report accepted after the registration
ProgressIsMaxWitness ==
    \E t \in DOMAIN task_metrics :
        /\ task_metrics[t].steps_completed = MaxSteps
        /\ obs[t].reported = MaxSteps
        /\ task_metrics[t].status = RUNNING
        /\ obs[t].reset_at > task_metrics[t].created_at
        /\ task_metrics[t].last_activity = Some(obs[t].reset_at)

FinishOutcomes == {COMPLETED, ERROR}

\* C6: a terminal status update on an already finished record leaves
\* status, completed_at, duration, error_message and last_activity as they
\* were. Fails: update_task_status rewrites them on every call.
FinishIdempotent ==
    [][\A t \in WatchedIds, s \in FinishOutcomes, e \in MsgInputs :
          ( /\ t \in DOMAIN task_metrics
            /\ task_metrics[t].status \in FinishOutcomes
            /\ UpdateTaskStatus(t, s, None, e) )
          => /\ task_metrics'[t].status = task_metrics[t].status
             /\ task_metrics'[t].completed_at = task_metrics[t].completed_at
             /\ task_metrics'[t].duration_seconds = task_metrics[t].duration_seconds
             /\ task_metrics'[t].error_message = task_metrics[t].error_message
             /\ task_metrics'[t].last_activity = task_metrics[t].last_activity]_vars

\* a step in which _check_stalled_tasks ran (called directly or by a loop)
StallCheckStep ==
    \/ CheckStalledTasks
    \/ \E i \in 1 .. Len(loops) : LoopBegin(i) \/ LoopWake(i)

\* the step moved record t from running to stalled
StalledNow(t) ==
    /\ t \in DOMAIN task_metrics
    /\ t \in DOMAIN task_metrics'
    /\ task_metrics[t].status = RUNNING
    /\ task_metrics'[t].status = STALLED

\* C7: the stall check that is the k-th consecutive one (k = max_stall_checks)
\* to find a running record inactive for more than stall_timeout, with no
\* progress report in between, leaves it stalled with a non-empty message.
StallEscalation ==
    [][StallCheckStep =>
         \A t \in DOMAIN obs \cap DOMAIN obs' :
            (obs'[t].consec = obs[t].consec + 1 /\ obs'[t].consec >= MaxStallChecks)
            => /\ task_metrics'[t].status = STALLED
               /\ Truthy(task_metrics'[t].error_message)]_vars

StallEscalationWitness ==
    \E t \in DOMAIN task_metrics :
        /\ obs[t].consec = MaxStallChecks
        /\ task_metrics[t].status = STALLED
        /\ IsSet(task_metrics[t].error_message)
        /\ Val(task_metrics[t].error_message)[1] = "Task stalled"

\* C8: every accepted progress report resets the escalation counter to zero,
\* and no stall check moves a record to stalled while its last accepted
\* report is at most stall_timeout old.
ProgressPreventsStall ==
    [][/\ StallCheckStep =>
            \A t \in DOMAIN obs : StalledNow(t) => now - obs[t].reset_at > StallTimeout
       /\ \A t \in WatchedIds, n \in StepValues :
            ( /\ t \in DOMAIN task_metrics
              /\ n > task_metrics[t].steps_completed
              /\ UpdateTaskProgress(t, n) )
            => task_metrics'[t].stall_count = 0]_vars

\* C8 witness: a record that has been running for longer than stall_timeout,
\* was counted idle, then reported progress and is running with counter 0
ProgressPreventsStallWitness ==
    \E t \in DOMAIN task_metrics :
        /\ task_metrics[t].status = RUNNING
        /\ IsSet(task_metrics[t].started_at)
        /\ now - Val(task_metrics[t].started_at) > StallTimeout
        /\ obs[t].reset_at > Val(task_metrics[t].started_at)
        /\ now - obs[t].reset_at <= StallTimeout
        /\ task_metrics[t].stall_count = 0
        /\ task_metrics[t].steps_completed > 0

\* C9: a stall check moves a record to stalled only when max_stall_checks
\* checks, this one included, have found it inactive since its last accepted
\* progress report; after the first and the second it is still running.
NoEarlyStall ==
    [][StallCheckStep =>
         \A t \in DOMAIN obs \cap DOMAIN obs' :
            StalledNow(t) => obs'[t].idle >= MaxStallChecks]_vars

\* C9 witness: still running after max_stall_checks - 1 idle checks
NoEarlyStallWitness ==
    \E t \in DOMAIN task_metrics :
        /\ task_metrics[t].status = RUNNING
        /\ obs[t].idle = MaxStallChecks - 1
        /\ obs[t].consec = MaxStallChecks - 1
        /\ task_metrics[t].stall_count = MaxStallChecks - 1

\* a pass of a monitoring loop, one that returns or one that raises
LoopPassStep ==
    \E i \in 1 .. Len(loops) :
        LoopBegin(i) \/ LoopWake(i) \/ \E checked \in BOOLEAN : LoopRaised(i, checked)

\* C10 as stated: the loop moves no record to stalled before
\* stall_timeout * max_stall_checks seconds of inactivity. Fails: the loop
\* checks every 10 s (5 s after a pass that raised) and a restarted loop
\* checks at once, so three detections fit in little more than 60 s.
GraceWindow ==
    [][LoopPassStep =>
         \A t \in DOMAIN task_metrics :
            StalledNow(t) =>
               now - Val(task_metrics[t].last_activity) >= StallTimeout * MaxStallChecks]_vars

\* C10 amended: whatever the schedule of the passes (returning, raising,
\* late, of a restarted loop), the loop moves a record to stalled only after
\* more than stall_timeout seconds without activity; and as long as
\* monitoring has been started once only, more than stall_timeout +
\* (max_stall_checks - 1) * 5 seconds after the last accepted progress
\* report of the record (or its registration), 5 s being the shortest sleep
\* between two passes of one loop.
GraceWindowAmended ==
    [][LoopPassStep =>
         \A t \in DOMAIN task_metrics :
            StalledNow(t) =>
               /\ now - Val(task_metrics[t].last_activity) > StallTimeout
               /\ Len(loops) = 1 =>
                     now - obs[t].reset_at >
                        StallTimeout + (MaxStallChecks - 1) * ErrorSleep]_vars

\* C10 witness: a record that has reported progress, stalled by a loop that
\* was never restarted, after less than stall_timeout + (max_stall_checks
\* - 1) * 10 seconds of inactivity: two of the passes raised
GraceWindowWitness ==
    \E t \in DOMAIN task_metrics :
        /\ Len(loops) = 1
        /\ task_metrics[t].status = STALLED
        /\ obs[t].idle >= MaxStallChecks
        /\ obs[t].reset_at > task_metrics[t].created_at
        /\ IsSet(task_metrics[t].error_message)
        /\ Val(task_metrics[t].error_message)[1] = "Task stalled"
        /\ Val(task_metrics[t].error_message)[2] <
              StallTimeout + (MaxStallChecks - 1) * LoopSleep

\* C11: a cancel call on a record that is queued or running leaves it, in
\* the same step and whatever the executor is doing, with status cancelled
\* and completed_at set.
CancelIsSynchronous ==
    [][\A t \in TaskIds :
          (/\ t \in DOMAIN active_tasks
           /\ active_tasks[t].status \in ActiveStatus
           /\ CancelTask(t))
          => /\ active_tasks'[t].status = CANCELLED
             /\ IsSet(active_tasks'[t].completed_at)]_vars

\* a record cancelled while its executor still awaits agent.run()
CancelIsSynchronousWitness ==
    \E t \in DOMAIN active_tasks :
        /\ active_tasks[t].status = CANCELLED
        /\ IsSet(active_tasks[t].completed_at)
        /\ executors[t].pc = "run"
        /\ t \in DOMAIN task_agents
        /\ task_agents[t].stopped
        /\ response = 200

\* the reply cancel_task owes to the state it finds
CancelReply(t) ==
    IF t \notin DOMAIN active_tasks THEN 404
    ELSE IF active_tasks[t].status \in TerminalStatus THEN 400
    ELSE IF active_tasks[t].status \in ActiveStatus THEN 200
    ELSE 0

\* C12: cancel replies not-found (404) for an id that is not in the
\* registry, invalid-state (400) for a record that is completed, error,
\* cancelled or stalled, and succeeds (200) only for a queued or running one.
CancelOutcome ==
    [][\A t \in TaskIds : CancelTask(t) => response' = CancelReply(t)]_vars

\* a cancel refused with invalid-state on a finished record
CancelOutcomeWitness ==
    /\ response = 400
    /\ \E t \in DOMAIN active_tasks : active_tasks[t].status \in {COMPLETED, ERROR}
    /\ \E t \in DOMAIN active_tasks : active_tasks[t].status = CANCELLED

RejectedCall ==
    /\ response' \in {409, 404, 400}
    /\ \/ \E u \in Users : ExecuteTask(u)
       \/ \E t \in TaskIds : CancelTask(t)

\* C13: a submit refused with 409 and a cancel refused with 404 or 400
\* leave the task registry, the session registry and the agent table as
\* they were.
RejectionsChangeNothing ==
    [][RejectedCall => UNCHANGED <<active_tasks, user_sessions, task_agents>>]_vars

\* a submit refused while the user's first task runs
RejectionsChangeNothingWitness ==
    /\ response = 409
    /\ Cardinality(DOMAIN active_tasks) < MaxTasks
    /\ \E u \in Users : user_active_tasks(active_tasks, u) # {}

\* every status update writes last_activity, so a record that is terminal
\* and has seen no activity for longer than the window became terminal
\* longer ago than the window
LongTerminal(m, clock) ==
    /\ m.status \in TerminalStatus
    /\ IsSet(m.last_activity)
    /\ clock - Val(m.last_activity) > CleanupAge

\* C14: after a cleanup scan the registry holds no record that is completed,
\* error, cancelled or stalled and became so more than the retention
\* window (3600 s) before the scan.
RetentionRemoves ==
    [][CleanupOldTasks =>
          \A t \in DOMAIN task_metrics :
              LongTerminal(task_metrics[t], now) => t \notin DOMAIN task_metrics']_vars

\* C15: a cleanup scan removes only records that are terminal and whose
\* completed_at is more than the retention window old; queued and running
\* records and terminal records at most 3600 s old stay.
RetentionPreserves ==
    [][CleanupOldTasks =>
          \A t \in DOMAIN task_metrics \ DOMAIN task_metrics' :
              /\ task_metrics[t].status \in TerminalStatus
              /\ IsSet(task_metrics[t].completed_at)
              /\ now - Val(task_metrics[t].completed_at) > CleanupAge]_vars

\* a scan has just run over a finished record exactly as old as the window
\* and has kept it
RetentionPreservesWitness ==
    /\ last_scan = Some(now)
    /\ \E t \in DOMAIN task_metrics :
          /\ task_metrics[t].status \in {COMPLETED, ERROR, CANCELLED}
          /\ IsSet(task_metrics[t].completed_at)
          /\ now - Val(task_metrics[t].completed_at) = CleanupAge

\* C16: every record of the monitor has completed_at set exactly when its
\* status is completed, error, cancelled or stalled, records moved to
\* stalled by the stall check included.
CompletedAtIffTerminal ==
    \A t \in DOMAIN task_metrics :
        IsSet(task_metrics[t].completed_at) <=> task_metrics[t].status \in TerminalStatus

\* C17: every record of the monitor has started_at set exactly when its
\* status has at some point been different from queued. started_at is
\* written only on the way to running, so the half that can fail is: a
\* record whose status is not queued has started_at set.
StartedIffLeftQueued ==
    \A t \in DOMAIN task_metrics :
        task_metrics[t].status # QUEUED => IsSet(task_metrics[t].started_at)

\* the handles constructed for, or handed to, the executors of a user
HandlesOf(user_id) ==
    { executors[t].session :
        t \in { x \in DOMAIN executors : /\ active_tasks[x].user_id = user_id
                                         /\ executors[x].session # 0 } }

\* C18: with no release, whatever the interleaving of the executors of a
\* user, at most one session handle is constructed for the user and every
\* get_or_create_session call of the user yields that handle.
SessionUnique == \A u \in Users : Cardinality(HandlesOf(u)) <= 1

\* C19: when a release that found a handle returns, the session registry has
\* no handle for the user, also when close() failed; a release that finds
\* no handle changes nothing and replies without error.
ReleaseRemoves ==
    [][\A u \in Users :
          /\ \A ok \in BOOLEAN : SessionClosed(u, ok) => u \notin DOMAIN user_sessions'
          /\ (u \notin DOMAIN user_sessions /\ CleanupUserSession(u))
               => (response' = 200 /\ UNCHANGED <<active_tasks, user_sessions,
                                                    task_agents, executors, closing>>)]_vars

\* C20: an entry of the session registry is removed or replaced only by a
\* release that closed the handle; no step of a task does it.
SessionsOutliveTasks ==
    [][\A u \in DOMAIN user_sessions :
          (u \notin DOMAIN user_sessions' \/ user_sessions'[u] # user_sessions[u])
          => SessionClosed(u, TRUE)]_vars

\* the steps in which session acquisition or the executor of task t fails
ExecutorFails(t) ==
    \/ RunAgentTask(t, FALSE)
    \/ SessionFailed(t)
    \/ SessionStarted(t, FALSE)
    \/ AgentRaised(t)
    \/ AgentReturned(t, FALSE)

\* C21: when session acquisition or the executor fails for an admitted
\* task, the step leaves the record with status error, the failure's
\* message and completed_at set, and sends nothing to the submitter (the
\* last reply stays what it was).
FailureIsRecorded ==
    [][\A t \in TaskIds :
          ExecutorFails(t)
          => /\ active_tasks'[t].status = ERROR
             /\ active_tasks'[t].error_message = Some(BoomMsg)
             /\ IsSet(active_tasks'[t].completed_at)
             /\ response' = response]_vars

\* a task that failed before its session was started: the record carries the error
\* and the submit had been answered with success
FailureIsRecordedWitness ==
    \E t \in DOMAIN active_tasks :
        /\ active_tasks[t].status = ERROR
        /\ active_tasks[t].error_message = Some(BoomMsg)
        /\ IsSet(active_tasks[t].completed_at)
        /\ executors[t] = [pc |-> "done", session |-> 0]
        /\ active_tasks[t].user_id \notin DOMAIN user_sessions
        /\ response = 200

\* C26: an accepted submit adds exactly one record, queued with no steps
\* and owned by the submitting user, leaves the other records alone and
\* replies before any executor step of the new task; a queued record
\* becomes running only in a step of its executor.
SubmitQueuesOnly ==
    [][/\ \A u \in Users :
             (ExecuteTask(u) /\ response' = 200)
             => /\ DOMAIN active_tasks' = DOMAIN active_tasks \cup {NextTaskId}
                /\ NextTaskId \notin DOMAIN active_tasks
                /\ active_tasks'[NextTaskId].status = QUEUED
                /\ active_tasks'[NextTaskId].steps_completed = 0
                /\ active_tasks'[NextTaskId].user_id = u
                /\ executors'[NextTaskId].pc = "pending"
                /\ \A t \in DOMAIN active_tasks : active_tasks'[t] = active_tasks[t]
       /\ \A t \in DOMAIN active_tasks' :
             (/\ active_tasks'[t].status = RUNNING
              /\ (t \notin DOMAIN active_tasks \/ active_tasks[t].status # RUNNING))
             => \E ok \in BOOLEAN : RunAgentTask(t, ok)]_vars

\* a submit has been answered and its record waits for the executor
SubmitQueuesOnlyWitness ==
    /\ response = 200
    /\ \E t \in DOMAIN active_tasks :
          /\ active_tasks[t].status = QUEUED
          /\ active_tasks[t].steps_completed = 0
          /\ executors[t].pc = "pending"
          /\ t = Cardinality(DOMAIN active_tasks)

\* C27: a submit of a user without queued or running record is accepted
\* whatever the records of the other users are.
AdmissionPerUser ==
    [][\A u \in Users :
          (ActiveOf(active_tasks, u) = {} /\ ExecuteTask(u))
          => (response' = 200 /\ Admitted(u))]_vars

\* tasks of two users run at the same time
AdmissionPerUserWitness ==
    \E t1, t2 \in DOMAIN active_tasks :
        /\ active_tasks[t1].user_id # active_tasks[t2].user_id
        /\ active_tasks[t1].status = RUNNING
        /\ active_tasks[t2].status = RUNNING
        /\ response = 200

\* C28: a progress report that arrives for a record in a terminal status
\* changes none of status, steps_completed, last_activity, stall_count and
\* completed_at.
LateWritesIgnored ==
    [][\A t \in WatchedIds, n \in StepValues :
          (/\ t \in DOMAIN task_metrics
           /\ task_metrics[t].status \in TerminalStatus
           /\ UpdateTaskProgress(t, n))
          => /\ task_metrics'[t].status = task_metrics[t].status
             /\ task_metrics'[t].steps_completed = task_metrics[t].steps_completed
             /\ task_metrics'[t].last_activity = task_metrics[t].last_activity
             /\ task_metrics'[t].stall_count = task_metrics[t].stall_count
             /\ task_metrics'[t].completed_at = task_metrics[t].completed_at]_vars

\* C30: every call that refreshes last_activity of a running record, an
\* accepted progress report or a status update that keeps it running,
\* leaves stall_count at 0.
ActivityResetsCounter ==
    [][\A t \in WatchedIds :
          (/\ t \in DOMAIN task_metrics
           /\ task_metrics[t].status = RUNNING
           /\ \/ \E n \in StepValues : UpdateTaskProgress(t, n)
              \/ \E n \in StepInputs, e \in MsgInputs : UpdateTaskStatus(t, RUNNING, n, e)
           /\ task_metrics'[t].last_activity # task_metrics[t].last_activity)
          => task_metrics'[t].stall_count = 0]_vars

\* the record has accepted a progress report after the previous pass of
\* loop i, which went to sleep LoopSleep seconds before wake_at, ErrorSleep
\* seconds when it raised
ProgressSincePass(i, t) ==
    /\ obs[t].reset_at > task_metrics[t].created_at
    /\ obs[t].reset_at > loops[i].wake_at
                            - (IF loops[i].pc = "backoff" THEN ErrorSleep ELSE LoopSleep)

CountedNow(t) ==
    /\ t \in DOMAIN task_metrics'
    /\ task_metrics'[t].stall_count > task_metrics[t].stall_count

\* C29 as stated: stall_count increases only in a tick that finds the record
\* running with no progress accepted since the previous tick, and by one.
CountsOnlySilentTicks ==
    [][\A t \in DOMAIN task_metrics :
          CountedNow(t)
          => /\ LoopPassStep
             /\ task_metrics[t].status = RUNNING
             /\ task_metrics'[t].stall_count = task_metrics[t].stall_count + 1
             /\ \A i \in 1 .. Len(loops) : LoopWake(i) => ~ProgressSincePass(i, t)]_vars

\* C29 amended: stall_count increases only in a tick that finds the record
\* running with a last activity more than stall_timeout old, and by one;
\* progress accepted since the previous tick does not matter.
CountsOnlyIdleTicks ==
    [][\A t \in DOMAIN task_metrics :
          CountedNow(t)
          => /\ LoopPassStep
             /\ task_metrics[t].status = RUNNING
             /\ task_metrics'[t].stall_count = task_metrics[t].stall_count + 1
             /\ IsSet(task_metrics[t].last_activity)
             /\ now - Val(task_metrics[t].last_activity) > StallTimeout]_vars

\* a tick has counted a record that had accepted progress in between
CountsOnlyIdleTicksWitness ==
    \E t \in DOMAIN task_metrics :
        /\ Len(loops) >= 1
        /\ task_metrics[t].status = RUNNING
        /\ task_metrics[t].stall_count = 1
        /\ obs[t].idle = 1
        /\ obs[t].reset_at > task_metrics[t].created_at
        /\ task_metrics[t].steps_completed > 0

\* listing is the records of the user in the registry, each once, with
\* created_at from newest to oldest
NewestFirst(listing, registry, user_id) ==
    /\ { listing[i] : i \in 1 .. Len(listing) }
         = { t \in DOMAIN registry : registry[t].user_id = user_id }
    /\ \A i, j \in 1 .. Len(listing) : i < j =>
          /\ listing[i] # listing[j]
          /\ registry[listing[i]].created_at >= registry[listing[j]].created_at

\* C25: the listing of a user, from the server registry and from the
\* monitor registry, holds exactly the user's records, each once, ordered by
\* created_at from newest to oldest.
ListingNewestFirst ==
    \A u \in Users :
        /\ NewestFirst(get_user_tasks(active_tasks, u), active_tasks, u)
        /\ NewestFirst(TaskMonitor_get_user_tasks(task_metrics, metrics_order, u),
                       task_metrics, u)

\* C24: once the stall check has moved a task to stalled, the status query
\* for that task reports status stalled with a non-empty error message.
StallIsVisible ==
    \A t \in DOMAIN task_metrics \cap DOMAIN active_tasks :
        (/\ task_metrics[t].status = STALLED
         /\ obs[t].consec >= MaxStallChecks)
        => /\ get_task_status(active_tasks, t).code = 200
           /\ get_task_status(active_tasks, t).status = STALLED
           /\ Truthy(get_task_status(active_tasks, t).error_message)

\* the last instant the clock of the lifecycle specification reaches
LastInstant == (MaxTime \div TickStep) * TickStep

SleepsAfterError(i) ==
    /\ Len(loops) >= i
    /\ loops[i].pc = "backoff"
    /\ loops[i].wake_at <= LastInstant

\* C22: a pass that raises does not end the loop, which sleeps 5 s instead;
\* and a loop that sleeps after an error runs a pass again (wake_at moves
\* on or the loop sleeps after a good pass) unless monitoring is stopped
\* meanwhile (the loop is then cancelled).
TickSurvivesException ==
    /\ [][\A i \in 1 .. Len(loops) :
             (\E checked \in BOOLEAN : LoopRaised(i, checked))
             => /\ loops'[i].pc = "backoff"
                /\ loops'[i].wake_at = now + ErrorSleep]_vars
    /\ \A i \in 1 .. MaxLoops :
          SleepsAfterError(i) ~> ~SleepsAfterError(i)

\* a loop whose first pass raised has run a good pass since: it sleeps
\* until an instant that no loop without error reaches on its second pass
TickSurvivesExceptionWitness ==
    \E i \in 1 .. Len(loops) :
        /\ monitoring_active
        /\ loops[i].pc = "sleeping"
        /\ loops[i].wake_at - loops[i].last_cleanup > LoopSleep
        /\ loops[i].wake_at - loops[i].last_cleanup < 2 * LoopSleep

\* C23: stop_monitoring clears the flag, touches no record and leaves every
\* loop cancelled or ended (no pass is under way: a pass has no await); a
\* cancelled loop runs no further pass; and it ends, which lets
\* stop_monitoring return.
StopIsClean ==
    /\ [][StopMonitoring
             => /\ ~monitoring_active'
                /\ UNCHANGED task_metrics
                /\ \A i \in 1 .. Len(loops') :
                      loops'[i].pc \in {"cancelling", "done"}]_vars
    /\ [][\A i \in 1 .. Len(loops) :
             loops[i].pc = "cancelling"
             => /\ loops'[i].pc \in {"cancelling", "done"}
                /\ loops'[i].wake_at = loops[i].wake_at
                /\ loops'[i] # loops[i] => UNCHANGED task_metrics]_vars
    /\ \A i \in 1 .. MaxLoops :
          (Len(loops) >= i /\ loops[i].pc = "cancelling")
              ~> (Len(loops) >= i /\ loops[i].pc = "done")

\* a loop cancelled in its sleep has ended before the sleep was over
StopIsCleanWitness ==
    \E i \in 1 .. Len(loops) :
        /\ ~monitoring_active
        /\ loops[i].pc = "done"
        /\ loops[i].wake_at > now

\* C31: in both registries a record carries an error_message only while its
\* status is error or stalled. Fails on monitoring.py: update_task_status
\* stores the message it is given whatever the status, and never clears it
\* when the status moves on.
MessageOnlyOnFailure ==
    /\ \A t \in DOMAIN task_metrics :
          IsSet(task_metrics[t].error_message)
          => task_metrics[t].status \in {ERROR, STALLED}
    /\ \A t \in DOMAIN active_tasks :
          IsSet(active_tasks[t].error_message)
          => active_tasks[t].status \in {ERROR, STALLED}

\* a progress report for a record that is registered and running
ReportForRunning(t, n) ==
    /\ t \in DOMAIN task_metrics
    /\ task_metrics[t].status = RUNNING
    /\ UpdateTaskProgress(t, n)

\* C32 as stated: every progress report for a running record sets its
\* last_activity to the instant of the report, whatever the reported value.
EveryReportRefreshes ==
    [][\A t \in WatchedIds, n \in StepValues :
          ReportForRunning(t, n)
          => task_metrics'[t].last_activity = Some(now)]_vars

\* C32 amended: a progress report for a running record sets last_activity
\* to the instant of the report when its value is strictly greater than the
\* stored steps_completed, and leaves last_activity as it was otherwise.
AcceptedReportRefreshes ==
    [][\A t \in WatchedIds, n \in StepValues :
          ReportForRunning(t, n)
          => task_metrics'[t].last_activity =
                IF n > task_metrics[t].steps_completed
                THEN Some(now)
                ELSE task_metrics[t].last_activity]_vars

\* a running record counted idle by a stall check has since received a
\* report that was not accepted: its last_activity is still the old one
AcceptedReportRefreshesWitness ==
    \E t \in DOMAIN task_metrics :
        /\ task_metrics[t].status = RUNNING
        /\ obs[t].idle > 0
        /\ obs[t].consec = 0
        /\ task_metrics[t].stall_count > 0
        /\ task_metrics[t].last_activity = Some(obs[t].reset_at)
        /\ now - obs[t].reset_at > StallTimeout

\* C33: a progress report whose value is not strictly greater than the
\* stored steps_completed leaves the whole record as it was; a greater one
\* stores the value, sets stall_count to 0 and last_activity to the instant
\* of the report, and changes nothing else.
RejectedReportChangesNothing ==
    [][\A t \in WatchedIds, n \in StepValues :
          (t \in DOMAIN task_metrics /\ UpdateTaskProgress(t, n))
          => task_metrics'[t] =
                IF n > task_metrics[t].steps_completed
                THEN [task_metrics[t] EXCEPT !.steps_completed = n,
                                             !.last_activity = Some(now),
                                             !.stall_count = 0]
                ELSE task_metrics[t]]_vars

\* a record with progress, counted idle by stall checks, has received a
\* report that was not accepted: the count of the checks is all there
RejectedReportChangesNothingWitness ==
    \E t \in DOMAIN task_metrics :
        /\ task_metrics[t].steps_completed > 0
        /\ task_metrics[t].steps_completed = obs[t].reported
        /\ obs[t].idle > 0
        /\ obs[t].consec = 0
        /\ task_metrics[t].stall_count = obs[t].idle
        /\ task_metrics[t].last_activity = Some(obs[t].reset_at)

\* a call of update_task_status (begin is the call with status running) or
\* update_task_progress for task id t
CallFor(t) ==
    \/ \E s \in TaskStatus, e \in RegistryMsgs :
          UpdateTaskStatus(t, s, None, e)
    \/ UpdateTaskProgress(t, MaxSteps)

\* C34: a status update (begin included) or a progress report for a task id
\* that is not in the registry returns without effect: no record is created
\* and every record of the registry stays as it was.
UnknownIdIsNoOp ==
    [][\A t \in TaskIds :
          (t \notin DOMAIN task_metrics /\ CallFor(t))
          => /\ DOMAIN task_metrics' = DOMAIN task_metrics
             /\ \A x \in DOMAIN task_metrics : task_metrics'[x] = task_metrics[x]]_vars

\* the registry holds a record with progress and lacks another id, for
\* which a begin and a progress report can be made in this state
UnknownIdIsNoOpWitness ==
    \E t \in TaskIds, x \in DOMAIN task_metrics :
        /\ t \notin DOMAIN task_metrics
        /\ task_metrics[x].status = RUNNING
        /\ task_metrics[x].steps_completed > 0
        /\ ENABLED UpdateTaskStatus(t, RUNNING, None, None)
        /\ ENABLED UpdateTaskProgress(t, MaxSteps)

SumCounts(counts) ==
    counts[QUEUED] + counts[RUNNING] + counts[COMPLETED]
        + counts[ERROR] + counts[CANCELLED] + counts[STALLED]

\* C39: in every state the statistics agree with the registry: the counts
\* by status add up to total_tasks, active_tasks is the queued count plus
\* the running count, active_users is the number of users who own a queued
\* or running record, and active_users <= active_tasks.
StatsConsistent ==
    LET stats == get_system_stats(task_metrics, monitoring_active)
    IN  /\ stats.total_tasks = Cardinality(DOMAIN task_metrics)
        /\ SumCounts(stats.status_counts) = stats.total_tasks
        /\ stats.active_tasks
             = stats.status_counts[QUEUED] + stats.status_counts[RUNNING]
        /\ stats.active_users
             = Cardinality({ u \in Users : ActiveOf(task_metrics, u) # {} })
        /\ stats.active_users <= stats.active_tasks

\* one user owns a queued and a running record, beside a finished record
\* or none: fewer active users than active tasks
StatsConsistentWitness ==
    LET stats == get_system_stats(task_metrics, monitoring_active)
    IN  /\ stats.total_tasks = MaxTasks
        /\ stats.status_counts[QUEUED] = 1
        /\ stats.status_counts[RUNNING] = 1
        /\ stats.active_tasks = 2
        /\ stats.active_users = 1

\* C35: every record of the monitor's registry whose status is running has
\* last_activity set (a record is created queued and becomes running only
\* through update_task_status, which writes last_activity), so the stall
\* check never skips a running record for want of a last_activity.
RunningHasActivity ==
    \A t \in DOMAIN task_metrics :
        task_metrics[t].status = RUNNING => IsSet(task_metrics[t].last_activity)

\* a running record that a stall check has read and counted once: its
\* last_activity is the instant it was begun
RunningHasActivityWitness ==
    \E t \in DOMAIN task_metrics :
        /\ task_metrics[t].status = RUNNING
        /\ IsSet(task_metrics[t].started_at)
        /\ task_metrics[t].last_activity = task_metrics[t].started_at
        /\ task_metrics[t].stall_count = 1
        /\ obs[t].idle = 1

\* the execution of task t is over: terminal status, no agent entry
Settled(t) ==
    /\ t \in DOMAIN executors
    /\ executors[t].pc = "done"
    /\ active_tasks[t].status \in {COMPLETED, ERROR, CANCELLED}
    /\ t \notin DOMAIN task_agents

\* C36: every record created by submit reaches the end of its execution
\* with a terminal status, provided the awaited calls return or raise; and
\* when the execution has ended the record is terminal and the task has no
\* entry in the agent table.
EveryTaskEnds ==
    /\ [](\A t \in DOMAIN executors : executors[t].pc = "done" => Settled(t))
    /\ \A t \in TaskIds : (t \in DOMAIN active_tasks) ~> Settled(t)

\* a task that acquired a session and ran its agent has ended completed,
\* a second one is settled as well
EveryTaskEndsWitness ==
    \E t \in DOMAIN executors :
        /\ Settled(t)
        /\ executors[t].session # 0
        /\ active_tasks[t].status = COMPLETED
        /\ \A x \in DOMAIN active_tasks : Settled(x)
        /\ Cardinality(DOMAIN active_tasks) = MaxTasks

\* the loops that can still run a pass: created and neither ended nor
\* cancelled (a cancelled loop runs no pass, it only ends: StopIsClean)
AliveLoops ==
    { i \in 1 .. Len(loops) : loops[i].pc \in {"created", "sleeping", "backoff"} }

\* C37: at most one monitoring loop is alive at any time: exactly one while
\* monitoring_active is true and none while it is false, whatever the
\* sequence of start_monitoring and stop_monitoring calls; and
\* start_monitoring called while monitoring is active creates no loop.
SingleLoop ==
    /\ [](Cardinality(AliveLoops) = IF monitoring_active THEN 1 ELSE 0)
    /\ [][(monitoring_active /\ StartMonitoring) => UNCHANGED loops]_vars

\* monitoring was started, stopped and started again: the first loop has
\* ended and the second one is at work
SingleLoopWitness ==
    /\ monitoring_active
    /\ Len(loops) = 2
    /\ loops[1].pc = "done"
    /\ loops[2].pc = "sleeping"
    /\ AliveLoops = {2}

\* the task ids that submit has returned: each got a background coroutine
Submitted == DOMAIN executors

\* C38: the registry of the orchestrator never loses a record: no step
\* removes a key of active_tasks, the status query answers 200 for every
\* task id that submit has returned, and cancel never answers 404 for one.
RegistryKeepsRecords ==
    /\ [](\A t \in Submitted : get_task_status(active_tasks, t).code = 200)
    /\ [][DOMAIN active_tasks \subseteq DOMAIN active_tasks']_vars
    /\ [][\A t \in Submitted : CancelTask(t) => response' # 404]_vars

\* a task has run to its end in a session that has been released since,
\* and the status query still answers for it
RegistryKeepsRecordsWitness ==
    \E t \in Submitted :
        /\ executors[t].pc = "done"
        /\ executors[t].session # 0
        /\ active_tasks[t].user_id \notin DOMAIN user_sessions
        /\ get_task_status(active_tasks, t).code = 200
        /\ get_task_status(active_tasks, t).status \in {COMPLETED, ERROR}

====
